---- MODULE Spec2Model ----
(***************************************************************************)
(* rustdoc-include: the directive engine of src/main.rs and src/attr.rs.   *)
(*                                                                         *)
(* A text is a sequence of symbols.  A symbol is a record: a plain         *)
(* character [c |-> "x"], or a bracket token [c |-> "[]", g2.., g6] that   *)
(* stands for the part `[ include_doc ... ]` of a directive line, carrying *)
(* the capture groups 2..6 the regular expression RE would extract from it *)
(* (a capture group is an Option: <<>> is None, <<v>> is Some(v)).  The    *)
(* line anchoring, the `//`, the blanks, the `#` and the optional `!` of   *)
(* RE are matched symbol by symbol.  The bracket part can also be written  *)
(* in pieces, `[include_doc(`, `"`, `, start(`, `, start)]`, `))]`, each   *)
(* piece one symbol: then the quoted strings of RE are runs of symbols     *)
(* between two `"`, and, as [^"]* does, they may hold newlines.  Offsets   *)
(* count symbols, from 0, and                                              *)
(* ranges are half open, as in Rust.  Texts are LF texts over the          *)
(* whitespace { space, tab, newline }; the numbers of a bracket token fit  *)
(* usize, so the parse in from_captures succeeds.  The directory tree is   *)
(* flat: the root holds a.rs, b.rs, lib.txt and possibly a file whose name *)
(* is `, start(`, and one file lies outside.                               *)
(***************************************************************************)
EXTENDS Integers, Sequences, FiniteSets, TLC

VARIABLES
    fs,               \* the directory tree: path -> Option(text)
    dry_run,          \* Opt::dry_run
    order,            \* the order in which Walk yields the .rs files
    runNo,            \* which invocation of the program this is
    pc,               \* position of run(): walk, loop, ret, done, failed, panic
    walkPos,          \* how many entries of Walk have been taken
    cur,              \* run: path of the file being processed
    input,            \* run/apply: the text read from cur
    attrs,            \* apply: the items Attr::find_iter(input) yields
    idx,              \* apply: how many items of attrs are consumed
    attr_start,       \* apply: Option(Attr), the pending start
    text,             \* apply: the output text being built
    text_is_modified, \* apply: local flag
    last_offset,      \* apply: local offset into input
    logs,             \* apply: Vec<LogEntry>
    result,           \* apply's return value, Option(Result)
    call,             \* a call of a pure function: its arguments
    ret               \* that call's outcome, Option

vars == <<fs, dry_run, order, runNo, pc, walkPos, cur, input, attrs, idx,
          attr_start, text, text_is_modified, last_offset, logs, result,
          call, ret>>

----------------------------------------------------------------------------
(* Bounds of the model *)

MaxLen == 4
MaxLine == 3
MaxDirs == 3
MaxRuns == 2
MaxPairs == 2

----------------------------------------------------------------------------
(* Options, symbols, strings *)

None == <<>>
Some(x) == <<x>>
IsSome(o) == Len(o) = 1

Ch(s) == [c |-> s]
NL == Ch("\n")
SP == Ch(" ")
TAB == Ch("\t")

IsBracket(x) == x.c = "[]"

\* char::is_whitespace, on the symbols of the model
IsWhitespace(x) == x \in {SP, TAB, NL}

\* the class [ \t] of RE
IsBlank(x) == x \in {SP, TAB}

\* &text[i..j]
Slice(t, i, j) == SubSeq(t, i + 1, j)

\* all sequences over S of length at most n
SeqsUpTo(S, n) == UNION {[1..k -> S] : k \in 0..n}

----------------------------------------------------------------------------
(* src/main.rs: line_offset, line_offset_rev *)

RECURSIVE LineOffsetLoop(_, _, _)
\* the for loop of line_offset from symbol index `i`, with `line` left
LineOffsetLoop(t, line, i) ==
    IF i >= Len(t) THEN Len(t)
    ELSE IF t[i + 1] = NL
         THEN IF line - 1 = 0 THEN i + 1
              ELSE LineOffsetLoop(t, line - 1, i + 1)
         ELSE LineOffsetLoop(t, line, i + 1)

LineOffsetEarly(t, line) ==
    IF line <= 1 THEN 1 ELSE LineOffsetLoop(t, line - 1, 0)

line_offset(t, line) ==
    IF line <= 1 THEN 0 ELSE LineOffsetLoop(t, line - 1, 0)

RECURSIVE LineOffsetRevLoop(_, _, _)
\* the reversed loop of line_offset_rev; `i` is the next index to look at
LineOffsetRevLoop(t, line, i) ==
    IF i < 0 THEN 0
    ELSE IF t[i + 1] = NL
         THEN IF line - 1 = 0 THEN i
              ELSE LineOffsetRevLoop(t, line - 1, i - 1)
         ELSE LineOffsetRevLoop(t, line, i - 1)

line_offset_rev(t, line) ==
    IF line = 0 THEN Len(t) ELSE LineOffsetRevLoop(t, line, Len(t) - 1)

----------------------------------------------------------------------------
(* str::find, str::rfind, str::trim_start, str::trim_end, str::lines *)

Occurs(t, p, i) == i + Len(p) <= Len(t) /\ Slice(t, i, i + Len(p)) = p

Occurrences(t, p) == {i \in 0..Len(t) : Occurs(t, p, i)}

SetMin(S) == CHOOSE x \in S : \A y \in S : x <= y
SetMax(S) == CHOOSE x \in S : \A y \in S : x >= y

\* text.find(p): Option(offset of the first occurrence)
StrFind(t, p) ==
    IF Occurrences(t, p) = {} THEN None ELSE Some(SetMin(Occurrences(t, p)))

\* text.rfind(p): Option(offset of the last occurrence)
StrRFind(t, p) ==
    IF Occurrences(t, p) = {} THEN None ELSE Some(SetMax(Occurrences(t, p)))

RECURSIVE TrimStart(_)
TrimStart(t) ==
    IF t /= <<>> /\ IsWhitespace(Head(t)) THEN TrimStart(Tail(t)) ELSE t

RECURSIVE TrimEndBlanks(_)
\* a trim_end that stops at a newline
TrimEndBlanks(t) ==
    IF t /= <<>> /\ IsBlank(t[Len(t)])
    THEN TrimEndBlanks(SubSeq(t, 1, Len(t) - 1)) ELSE t

RECURSIVE TrimEnd(_)
TrimEnd(t) ==
    IF t /= <<>> /\ IsWhitespace(t[Len(t)])
    THEN TrimEnd(SubSeq(t, 1, Len(t) - 1)) ELSE t

RECURSIVE StrLines(_)
\* s.lines(): split at newlines; a final newline opens no further line
StrLines(t) ==
    IF t = <<>> THEN <<>>
    ELSE LET nl == {i \in 1..Len(t) : t[i] = NL}
         IN  IF nl = {} THEN <<t>>
             ELSE LET k == SetMin(nl)
                  IN  <<SubSeq(t, 1, k - 1)>> \o StrLines(SubSeq(t, k + 1, Len(t)))

----------------------------------------------------------------------------
(* src/attr.rs: Kind, ActionArg, RE, Attr *)

\* Kind::doc_comment_prefix
doc_comment_prefix(kind) ==
    IF kind = "Inner" THEN <<Ch("/"), Ch("/"), Ch("!"), SP>>
    ELSE <<Ch("/"), Ch("/"), Ch("/"), SP>>

ArgNone == [t |-> "None"]
ArgLine(n) == [t |-> "Line", n |-> n]
ArgLineRev(n) == [t |-> "LineRev", n |-> n]
ArgText(p) == [t |-> "Text", p |-> p]

\* the symbol at offset i, or the end-of-text mark
EOT == Ch("")
At(t, i) == IF 0 <= i /\ i < Len(t) THEN t[i + 1] ELSE EOT

RECURSIVE SkipBlanks(_, _, _)
\* [ \t]* from offset i, inside the line ending at e: the offset it stops at
SkipBlanks(t, i, e) ==
    IF i < e /\ IsBlank(t[i + 1]) THEN SkipBlanks(t, i + 1, e) ELSE i

RECURSIVE LineSpansFrom(_, _, _)
LineSpansFrom(t, s, i) ==
    IF i >= Len(t) THEN <<[start |-> s, end |-> Len(t)]>>
    ELSE IF t[i + 1] = NL
         THEN <<[start |-> s, end |-> i]>> \o LineSpansFrom(t, i + 1, i + 1)
         ELSE LineSpansFrom(t, s, i + 1)

\* the places where (?m:^ ... $) can match: from a line start to that line's end
LineSpans(t) == LineSpansFrom(t, 0, 0)

\* the pieces of a bracket part written symbol by symbol
LB == Ch("[include_doc(")
Q == Ch("\"")
CommaParen(a) == Ch(", " \o a \o "(")
CommaClose(a) == Ch(", " \o a \o ")]")
CloseAll == Ch("))]")

Actions == {"start", "end"}

\* the symbol ends with `]`
EndsBracket(x) ==
    IsBracket(x) \/ x = CloseAll \/ \E a \in Actions : x = CommaClose(a)

RECURSIVE StrOf(_)
\* the string a run of plain symbols spells
StrOf(p) == IF p = <<>> THEN "" ELSE Head(p).c \o StrOf(Tail(p))

\* "([^"]*)" from the opening quote at offset q: Option(offset of the closing
\* quote).  A bracket token in between holds a quote of its own, followed by
\* its path: the string would end there and the match fail.
ClosingQuote(t, q) ==
    LET qs == {j \in (q + 1)..(Len(t) - 1) : t[j + 1] = Q \/ IsBracket(t[j + 1])}
    IN  IF qs = {} \/ IsBracket(t[SetMin(qs) + 1]) THEN None
        ELSE Some(SetMin(qs))

\* the capture groups 2..6 of a bracket part written in pieces
QuotedTok(path, action, arg) ==
    [c |-> "[]", g2 |-> Some(StrOf(path)), g3 |-> Some(action), g4 |-> arg,
     g5 |-> None, g6 |-> None]

\* `[include_doc` matched by the `.*` alternative: no capture group takes part
NoCaptures ==
    [c |-> "[]", g2 |-> None, g3 |-> None, g4 |-> None, g5 |-> None,
     g6 |-> None]

\* the first alternative of RE after `[include_doc(` at offset p, up to the
\* `]`: Option(capture groups, offset after the `]`)
REQuoted(t, p) ==
    LET q1 == SkipBlanks(t, p + 1, Len(t))
        q2 == ClosingQuote(t, q1)
        a1 == SkipBlanks(t, q2[1] + 1, Len(t))
        act == CHOOSE a \in Actions : At(t, a1) \in {CommaParen(a), CommaClose(a)}
        q3 == SkipBlanks(t, a1 + 1, Len(t))
        q4 == ClosingQuote(t, q3)
        c == SkipBlanks(t, q4[1] + 1, Len(t))
    IN  IF At(t, q1) /= Q \/ ~IsSome(q2) THEN None
        ELSE IF \E a \in Actions : At(t, a1) = CommaClose(a)
        THEN Some([tok |-> QuotedTok(Slice(t, q1 + 1, q2[1]), act, None),
                   end |-> a1 + 1])
        ELSE IF /\ \E a \in Actions : At(t, a1) = CommaParen(a)
                /\ At(t, q3) = Q
                /\ IsSome(q4)
                /\ At(t, c) = CloseAll
        THEN Some([tok |-> QuotedTok(Slice(t, q1 + 1, q2[1]), act,
                                     Some(Slice(t, q3 + 1, q4[1]))),
                   end |-> c + 1])
        ELSE None

\* RE from the start of a line: ^[ \t]*//[ \t]*#(!?)\[ ... \][ \t]*$,
\* Option(captures); the first alternative is tried first, then `.*`, which
\* stays on the line
REMatch(t, span) ==
    LET p1 == SkipBlanks(t, span.start, span.end)
        p2 == SkipBlanks(t, p1 + 2, span.end)
        bang == At(t, p2 + 1) = Ch("!")
        p4 == IF bang THEN p2 + 2 ELSE p2 + 1
        sym == At(t, p4)
        first == IF IsBracket(sym)
                 THEN IF IsSome(sym.g2) THEN Some([tok |-> sym, end |-> p4 + 1])
                      ELSE None
                 ELSE REQuoted(t, p4)
        stop == SkipBlanks(t, first[1].end, Len(t))
        last == SetMax({j \in span.start..(span.end - 1) : ~IsBlank(t[j + 1])})
        g1 == IF bang THEN "!" ELSE ""
    IN  IF ~(/\ p1 + 1 < span.end
             /\ At(t, p1) = Ch("/")
             /\ At(t, p1 + 1) = Ch("/")
             /\ p2 < span.end
             /\ At(t, p2) = Ch("#")
             /\ p4 < span.end
             /\ (IsBracket(sym) \/ sym = LB))
        THEN None
        ELSE IF IsSome(first) /\ At(t, stop) \in {NL, EOT}
        THEN Some([range |-> [start |-> span.start, end |-> stop],
                   g1 |-> g1, tok |-> first[1].tok])
        ELSE IF EndsBracket(t[last + 1]) /\ (IF sym = LB THEN last > p4
                                                         ELSE last >= p4)
        THEN Some([range |-> span, g1 |-> g1, tok |-> NoCaptures])
        ELSE None

\* Attr::from_captures: Option(Attr)
from_captures(c) ==
    LET k == c.tok
        target == IF c.g1 = "" THEN "Outer" ELSE "Inner"
        arg == IF IsSome(k.g4) THEN ArgText(k.g4[1])
               ELSE IF IsSome(k.g6)
                    THEN IF IsSome(k.g5) THEN ArgLineRev(k.g6[1])
                         ELSE ArgLine(k.g6[1])
                    ELSE ArgNone
    IN  IF ~IsSome(k.g2) \/ ~IsSome(k.g3) THEN None
        ELSE Some([range |-> c.range,
                   kind |-> target,
                   path |-> k.g2[1],
                   action |-> IF k.g3[1] = "start" THEN "Start" ELSE "End",
                   arg |-> arg])

\* Result<Attr, BadAttrError>
OkAttr(a) == [ok |-> TRUE, attr |-> a]
BadAttr(range) == [ok |-> FALSE, range |-> range]

RECURSIVE FindIterFrom(_, _, _, _)
\* the matches do not overlap: a line that starts before the end of the last
\* match, at offset `from`, is passed over
FindIterFrom(t, spans, i, from) ==
    IF i > Len(spans) THEN <<>>
    ELSE IF spans[i].start < from THEN FindIterFrom(t, spans, i + 1, from)
    ELSE LET m == REMatch(t, spans[i])
         IN  IF IsSome(m)
             THEN LET a == from_captures(m[1])
                  IN  <<IF IsSome(a) THEN OkAttr(a[1])
                        ELSE BadAttr(m[1].range)>>
                      \o FindIterFrom(t, spans, i + 1, m[1].range.end)
             ELSE FindIterFrom(t, spans, i + 1, from)

\* Attr::find_iter: the items of the iterator, in order
find_iter(t) == FindIterFrom(t, LineSpans(t), 1, 0)

\* Attr::find_may_bad: Option(range of the first match of RE)
find_may_bad(t) ==
    LET spans == LineSpans(t)
        hits == {i \in 1..Len(spans) : IsSome(REMatch(t, spans[i]))}
    IN  IF hits = {} THEN None
        ELSE Some(REMatch(t, spans[SetMin(hits)])[1].range)

MismatchPathOnly(self, other) ==
    IF self.path /= other.path THEN Some("Path") ELSE None

\* Attr::mismatch: Option(Mismatch)
mismatch(self, other) ==
    IF self.kind /= other.kind THEN Some("Kind")
    ELSE IF self.path /= other.path THEN Some("Path")
    ELSE None

----------------------------------------------------------------------------
(* src/main.rs: ApplyError, make_pair, trim, is_modified, to_doc_comment *)

ErrBadAttr(e) == [tag |-> "BadAttr", range |-> e.range]
ErrMissingAttr(a) == [tag |-> "MissingAttr", attr |-> a]
ErrMismatchAttr(s, e, m) ==
    [tag |-> "MismatchAttr", start |-> s, end |-> e, mismatch |-> m]
ErrTextNofFound(a) == [tag |-> "TextNofFound", attr |-> a]
ErrSourceRead(a) == [tag |-> "SourceRead", attr |-> a]
ErrSourceContent(a, range, rel, src) ==
    [tag |-> "SourceContent", attr |-> a, source_range |-> range,
     source_rel_path |-> rel, source_text |-> src]

Ok(v) == [tag |-> "Ok", val |-> v]
Err(e) == [tag |-> "Err", err |-> e]
Panic == [tag |-> "Panic"]

\* make_pair that reports the new start instead of the pending one
MakePairReportsNew(start, attr) ==
    IF ~attr.ok THEN [start |-> start, out |-> Err(ErrBadAttr(attr))]
    ELSE IF attr.attr.action = "Start"
         THEN IF IsSome(start)
              THEN [start |-> Some(attr.attr),
                    out |-> Err(ErrMissingAttr(attr.attr))]
              ELSE [start |-> Some(attr.attr), out |-> Ok(None)]
         ELSE IF IsSome(start)
              THEN LET m == mismatch(start[1], attr.attr)
                   IN  IF IsSome(m)
                       THEN [start |-> None,
                             out |-> Err(ErrMismatchAttr(start[1], attr.attr, m[1]))]
                       ELSE [start |-> None,
                             out |-> Ok(Some(<<start[1], attr.attr>>))]
              ELSE [start |-> None, out |-> Err(ErrMissingAttr(attr.attr))]

\* make_pair: `start` is the value of *start before the call; the outcome is
\* the value of *start after it and the value returned
make_pair(start, attr) ==
    IF ~attr.ok THEN [start |-> start, out |-> Err(ErrBadAttr(attr))]
    ELSE IF attr.attr.action = "Start"
         THEN IF IsSome(start)
              THEN [start |-> Some(attr.attr),
                    out |-> Err(ErrMissingAttr(start[1]))]
              ELSE [start |-> Some(attr.attr), out |-> Ok(None)]
         ELSE IF IsSome(start)
              THEN LET m == mismatch(start[1], attr.attr)
                   IN  IF IsSome(m)
                       THEN [start |-> None,
                             out |-> Err(ErrMismatchAttr(start[1], attr.attr, m[1]))]
                       ELSE [start |-> None,
                             out |-> Ok(Some(<<start[1], attr.attr>>))]
              ELSE [start |-> None, out |-> Err(ErrMissingAttr(attr.attr))]

\* the first match of trim: Option(index_start), None when the text is absent
TrimIndexStart(t, arg) ==
    CASE arg.t = "None" -> Some(0)
      [] arg.t = "Line" -> Some(line_offset(t, arg.n))
      [] arg.t = "LineRev" -> Some(line_offset_rev(t, arg.n))
      [] arg.t = "Text" -> StrFind(t, arg.p)

\* the end anchor searched from the front, like the start anchor
TrimIndexEndFirst(t, arg) ==
    CASE arg.t = "None" -> Some(Len(t))
      [] arg.t = "Line" -> Some(line_offset(t, arg.n))
      [] arg.t = "LineRev" -> Some(line_offset_rev(t, arg.n))
      [] arg.t = "Text" -> StrFind(t, arg.p)

\* the second match of trim: Option(index_end)
TrimIndexEnd(t, arg) ==
    CASE arg.t = "None" -> Some(Len(t))
      [] arg.t = "Line" -> Some(line_offset(t, arg.n))
      [] arg.t = "LineRev" -> Some(line_offset_rev(t, arg.n))
      [] arg.t = "Text" -> StrRFind(t, arg.p)

\* trim: Ok(slice), Err(TextNofFound), or the panic of &text[a..b] with a > b
trim(t, start, end) ==
    LET is == TrimIndexStart(t, start.arg)
        ie == TrimIndexEnd(t, end.arg)
    IN  IF ~IsSome(is) THEN Err(ErrTextNofFound(start))
        ELSE IF ~IsSome(ie) THEN Err(ErrTextNofFound(end))
        ELSE IF is[1] > ie[1] THEN Panic
        ELSE LET index_start == ie[1] - Len(TrimStart(Slice(t, is[1], ie[1])))
                 index_end == index_start
                              + Len(TrimEnd(Slice(t, index_start, ie[1])))
             IN  Ok(Slice(t, index_start, index_end))

\* an is_modified that compares the lengths only
IsModifiedByLength(text_new, text_old, start, end) ==
    Len(text_new) + 1 /= end.range.start - start.range.end

\* is_modified
is_modified(text_new, text_old, start, end) ==
    LET old_text == Slice(text_old, start.range.end, end.range.start)
    IN  IF old_text = <<>> \/ Head(old_text) /= NL THEN TRUE
        ELSE text_new /= Tail(old_text)

RECURSIVE DocLines(_, _, _)
DocLines(lines, prefix, i) ==
    IF i > Len(lines) THEN <<>>
    ELSE prefix \o lines[i] \o <<NL>> \o DocLines(lines, prefix, i + 1)

\* to_doc_comment
to_doc_comment(s, prefix) == DocLines(StrLines(s), prefix, 1)

----------------------------------------------------------------------------
(* The directory tree *)

\* the files Walk can yield
WalkFiles == {"a.rs", "b.rs", "lib.txt"}

\* a file name that reads as `, start(` after a closing quote
QuoteFile == ", start("

RootFiles == WalkFiles \cup {QuoteFile}
OutsideFile == "../out.txt"
Paths == RootFiles \cup {OutsideFile}

\* path.extension() == Some("rs")
IsRs(path) == path \in {"a.rs", "b.rs"}

\* include: canonicalize fails for a missing file, strip_prefix for a file
\* that is not under the root
include(fsys, source) ==
    IF source \notin DOMAIN fsys \/ ~IsSome(fsys[source]) THEN Err("canonicalize")
    ELSE IF source \notin RootFiles THEN Err("source is out of root")
    ELSE Ok([rel_path |-> source, text |-> fsys[source][1]])

----------------------------------------------------------------------------
(* src/main.rs: apply *)

\* the locals of apply
Locals(txt, mod, off, lg) ==
    [text |-> txt, text_is_modified |-> mod, last_offset |-> off, logs |-> lg]

\* the loop body that resumes after the end marker instead of at it
ApplyPairSkipsEnd(fsys, inp, st, start, end) ==
    LET text1 == st.text \o Slice(inp, st.last_offset, start.range.end) \o <<NL>>
        inc == include(fsys, start.path)
        tr == trim(inc.val.text, start, end)
        text_new == to_doc_comment(tr.val, doc_comment_prefix(start.kind))
        mod == is_modified(text_new, inp, start, end)
    IN  IF inc.tag = "Err"
        THEN [st |-> [st EXCEPT !.text = text1], out |-> Err(ErrSourceRead(start))]
        ELSE IF tr.tag /= "Ok"
        THEN [st |-> [st EXCEPT !.text = text1], out |-> tr]
        ELSE [st |-> Locals(text1 \o text_new, st.text_is_modified \/ mod,
                            end.range.end,
                            Append(st.logs, [source_rel_path |-> inc.val.rel_path,
                                             is_modified |-> mod])),
              out |-> Ok(None)]

\* the body of the loop of apply for one pair (lines 174-212): the locals after
\* it and Ok(None) to go on, or the error returned, or the panic of trim
ApplyPair(fsys, inp, st, start, end) ==
    LET text1 == st.text \o Slice(inp, st.last_offset, start.range.end) \o <<NL>>
        inc == include(fsys, start.path)
        tr == trim(inc.val.text, start, end)
        text_new == to_doc_comment(tr.val, doc_comment_prefix(start.kind))
        mod == is_modified(text_new, inp, start, end)
        bad == find_may_bad(text_new)
    IN  IF inc.tag = "Err"
        THEN [st |-> [st EXCEPT !.text = text1], out |-> Err(ErrSourceRead(start))]
        ELSE IF tr.tag /= "Ok"
        THEN [st |-> [st EXCEPT !.text = text1], out |-> tr]
        ELSE IF mod /\ IsSome(bad)
        THEN [st |-> [st EXCEPT !.text = text1, !.text_is_modified = TRUE],
              out |-> Err(ErrSourceContent(start, bad[1], inc.val.rel_path,
                                           text_new))]
        ELSE [st |-> Locals(text1 \o text_new, st.text_is_modified \/ mod,
                            end.range.start,
                            Append(st.logs, [source_rel_path |-> inc.val.rel_path,
                                             is_modified |-> mod])),
              out |-> Ok(None)]

\* ApplyResult
ApplyResult(txt, lg) == [text |-> txt, logs |-> lg]

\* the end of apply (lines 215-217); the pending start is not looked at
ApplyEnd(inp, st, pending) ==
    LET full == st.text \o Slice(inp, st.last_offset, Len(inp))
    IN  Ok(ApplyResult(IF st.text_is_modified THEN Some(full) ELSE None,
                       st.logs))

CurLocals == Locals(text, text_is_modified, last_offset, logs)

SetLocals(st) ==
    /\ text' = st.text
    /\ text_is_modified' = st.text_is_modified
    /\ last_offset' = st.last_offset
    /\ logs' = st.logs

----------------------------------------------------------------------------
(* src/main.rs: run, one action per step *)

\* the next entry of Walk is a .rs file: read it and enter apply
Visit ==
    /\ pc = "walk"
    /\ walkPos < Len(order)
    /\ IsRs(order[walkPos + 1])
    /\ walkPos' = walkPos + 1
    /\ cur' = order[walkPos + 1]
    /\ input' = fs[order[walkPos + 1]][1]
    /\ attrs' = find_iter(fs[order[walkPos + 1]][1])
    /\ idx' = 0
    /\ attr_start' = None
    /\ SetLocals(Locals(<<>>, FALSE, 0, <<>>))
    /\ result' = None
    /\ pc' = "loop"
    /\ UNCHANGED <<fs, dry_run, order, runNo, call, ret>>

\* the next entry of Walk is not a .rs file: continue
SkipEntry ==
    /\ pc = "walk"
    /\ walkPos < Len(order)
    /\ ~IsRs(order[walkPos + 1])
    /\ walkPos' = walkPos + 1
    /\ UNCHANGED <<fs, dry_run, order, runNo, pc, cur, input, attrs, idx,
                   attr_start, text, text_is_modified, last_offset, logs,
                   result, call, ret>>

\* Walk is exhausted: run returns Ok(())
WalkEnd ==
    /\ pc = "walk"
    /\ walkPos = Len(order)
    /\ pc' = "done"
    /\ UNCHANGED <<fs, dry_run, order, runNo, walkPos, cur, input, attrs, idx,
                   attr_start, text, text_is_modified, last_offset, logs,
                   result, call, ret>>

\* one iteration of the loop of apply: make_pair(..)? and the body for a pair
ApplyStep ==
    /\ pc = "loop"
    /\ idx < Len(attrs)
    /\ LET mp == make_pair(attr_start, attrs[idx + 1])
           pr == ApplyPair(fs, input, CurLocals, mp.out.val[1][1], mp.out.val[1][2])
       IN  /\ idx' = idx + 1
           /\ attr_start' = mp.start
           /\ IF mp.out.tag = "Err"
              THEN /\ result' = Some(mp.out)
                   /\ pc' = "ret"
                   /\ UNCHANGED <<text, text_is_modified, last_offset, logs>>
              ELSE IF ~IsSome(mp.out.val)
              THEN UNCHANGED <<result, pc, text, text_is_modified, last_offset,
                               logs>>
              ELSE /\ SetLocals(pr.st)
                   /\ result' = IF pr.out.tag = "Err" THEN Some(pr.out) ELSE None
                   /\ pc' = CASE pr.out.tag = "Err" -> "ret"
                              [] pr.out.tag = "Panic" -> "panic"
                              [] OTHER -> "loop"
    /\ UNCHANGED <<fs, dry_run, order, runNo, walkPos, cur, input, attrs,
                   call, ret>>

\* the iterator is exhausted: apply returns
ApplyReturn ==
    /\ pc = "loop"
    /\ idx = Len(attrs)
    /\ LET r == ApplyEnd(input, CurLocals, attr_start)
       IN  /\ result' = Some(r)
           /\ text' = text \o Slice(input, last_offset, Len(input))
    /\ pc' = "ret"
    /\ UNCHANGED <<fs, dry_run, order, runNo, walkPos, cur, input, attrs, idx,
                   attr_start, text_is_modified, last_offset, logs, call, ret>>

\* run writes whatever apply built, also after an error
RunWriteAlways(fsys, path, res, dry) ==
    IF ~dry THEN [fsys EXCEPT ![path] = Some(text)] ELSE fsys

\* the match of run on apply's result (lines 40-57): the tree afterwards
RunWrite(fsys, path, res, dry) ==
    IF res.tag = "Ok" /\ IsSome(res.val.text) /\ ~dry
    THEN [fsys EXCEPT ![path] = Some(res.val.text[1])]
    ELSE fsys

RunMatch ==
    /\ pc = "ret"
    /\ fs' = RunWrite(fs, cur, result[1], dry_run)
    /\ pc' = IF result[1].tag = "Ok" THEN "walk" ELSE "failed"
    /\ UNCHANGED <<dry_run, order, runNo, walkPos, cur, input, attrs, idx,
                   attr_start, text, text_is_modified, last_offset, logs,
                   result, call, ret>>

\* the program is run again on the same root
RunAgain ==
    /\ pc = "done"
    /\ runNo < MaxRuns
    /\ runNo' = runNo + 1
    /\ walkPos' = 0
    /\ pc' = "walk"
    /\ UNCHANGED <<fs, dry_run, order, cur, input, attrs, idx, attr_start,
                   text, text_is_modified, last_offset, logs, result, call, ret>>

Next == Visit \/ SkipEntry \/ WalkEnd \/ ApplyStep \/ ApplyReturn \/ RunMatch
        \/ RunAgain

----------------------------------------------------------------------------
(* Building the files of the initial tree *)

H == Ch("h")
W == Ch("w")
X == Ch("x")
O == Ch("o")

\* the bracket part of a directive, as the capture groups 2..6 of RE
Tok(path, action, a) ==
    [c |-> "[]", g2 |-> Some(path), g3 |-> Some(action),
     g4 |-> IF a.t = "Text" THEN Some(a.p) ELSE None,
     g5 |-> IF a.t = "LineRev" THEN Some("-") ELSE None,
     g6 |-> IF a.t \in {"Line", "LineRev"} THEN Some(a.n) ELSE None]

\* `[include_doc ...]` matched by the `.*` alternative only
BadTok ==
    [c |-> "[]", g2 |-> None, g3 |-> None, g4 |-> None, g5 |-> None,
     g6 |-> None]

\* the line `// #[include_doc("path", action(arg))]`, `#!` for Inner
DirLine(kind, path, action, a) ==
    <<Ch("/"), Ch("/"), SP, Ch("#")>>
    \o (IF kind = "Inner" THEN <<Ch("!")>> ELSE <<>>)
    \o <<Tok(path, action, a)>>

BadLine == <<Ch("/"), Ch("/"), SP, Ch("#"), BadTok>>

RECURSIVE Join(_)
\* the lines, a newline between two of them
Join(lines) ==
    IF lines = <<>> THEN <<>>
    ELSE IF Len(lines) = 1 THEN lines[1]
    ELSE lines[1] \o <<NL>> \o Join(Tail(lines))

RECURSIVE Concat(_)
Concat(ts) == IF ts = <<>> THEN <<>> ELSE Head(ts) \o Concat(Tail(ts))

Perms(S) == {f \in [1..Cardinality(S) -> S] : \A i, j \in 1..Cardinality(S) :
                                                 f[i] = f[j] => i = j}

Kinds == {"Outer", "Inner"}

\* the arguments of a directive, line numbers up to MaxLine
LineArgs == {ArgLine(n) : n \in 0..MaxLine} \cup {ArgLineRev(n) : n \in 0..MaxLine}

\* the state before the first run, but for the tree, the option and the order
InitLocals ==
    /\ runNo = 1
    /\ walkPos = 0
    /\ cur = ""
    /\ input = <<>>
    /\ attrs = <<>>
    /\ idx = 0
    /\ attr_start = None
    /\ text = <<>>
    /\ text_is_modified = FALSE
    /\ last_offset = 0
    /\ logs = <<>>
    /\ result = None

\* no pure function is being called
NoCall ==
    /\ call = <<>>
    /\ ret = None

TreeWith(a, b, lib, quote) ==
    [p \in Paths |-> CASE p = "a.rs" -> a
                       [] p = "b.rs" -> b
                       [] p = "lib.txt" -> lib
                       [] p = QuoteFile -> quote
                       [] OTHER -> Some(<<X>>)]

\* a tree without the file named `, start(`
Tree(a, b, lib) == TreeWith(a, b, lib, None)

LibTexts == {<<H, NL, W, NL>>, <<NL, X, SP, NL>>}

----------------------------------------------------------------------------
(* Spec: two .rs files, one of which may include the other *)

RunArgs == {ArgNone, ArgText(<<H>>)} \cup LineArgs

\* a.rs: one pair around an optional placeholder line
RunATexts ==
    {Join(<<DirLine("Outer", path, "start", as)>> \o mid
          \o <<DirLine("Outer", path, "end", ae)>>) :
        path \in {"b.rs", "lib.txt"}, as \in RunArgs, ae \in RunArgs,
        mid \in {<<>>, <<<<O>>>>}}

\* b.rs: plain text, or one pair on lib.txt around an optional placeholder line
RunBTexts ==
    {<<X>>} \cup
    {Join(<<DirLine("Outer", "lib.txt", "start", ArgNone)>> \o mid
          \o <<DirLine("Outer", "lib.txt", "end", ArgNone)>>) :
        mid \in {<<>>, <<<<O>>>>}}

Init ==
    /\ \E a \in RunATexts, b \in RunBTexts, lib \in LibTexts :
           fs = Tree(Some(a), Some(b), Some(lib))
    /\ dry_run \in BOOLEAN
    /\ order \in Perms(WalkFiles)
    /\ pc = "walk"
    /\ InitLocals
    /\ NoCall

Spec == Init /\ [][Next]_vars

----------------------------------------------------------------------------
(* SpecLineOffset: line_offset and line_offset_rev on every small text *)

TextAlphabet == {X, SP, NL}

Texts == SeqsUpTo(TextAlphabet, MaxLen)

\* no run is in progress: an empty tree
NoRun ==
    /\ fs = [p \in Paths |-> None]
    /\ dry_run = FALSE
    /\ order = <<>>
    /\ InitLocals

InitLineOffset ==
    /\ \E t \in Texts, n \in 0..(MaxLine + 2), f \in {"line_offset", "line_offset_rev"} :
           call = [fn |-> f, text |-> t, line |-> n]
    /\ ret = None
    /\ pc = "call"
    /\ NoRun

CallLineOffset ==
    /\ pc = "call"
    /\ call.fn = "line_offset"
    /\ ret' = Some(line_offset(call.text, call.line))
    /\ pc' = "returned"
    /\ UNCHANGED <<fs, dry_run, order, runNo, walkPos, cur, input, attrs, idx,
                   attr_start, text, text_is_modified, last_offset, logs,
                   result, call>>

CallLineOffsetRev ==
    /\ pc = "call"
    /\ call.fn = "line_offset_rev"
    /\ ret' = Some(line_offset_rev(call.text, call.line))
    /\ pc' = "returned"
    /\ UNCHANGED <<fs, dry_run, order, runNo, walkPos, cur, input, attrs, idx,
                   attr_start, text, text_is_modified, last_offset, logs,
                   result, call>>

NextLineOffset == CallLineOffset \/ CallLineOffsetRev

SpecLineOffset == InitLineOffset /\ [][NextLineOffset]_vars

\* the number of newlines among the first r symbols of t
NewlinesBefore(t, r) == Cardinality({i \in 1..r : t[i] = NL})

\* C10: line_offset(text, n) is 0 for n <= 1, the offset just after the
\* (n-1)-th newline when the text has at least n-1 newlines, and the length of
\* the text otherwise; line_offset_rev(text, 0) is the length of the text; both
\* results lie in 0..len(text).
LineAnchorArithmetic ==
    (pc = "returned" /\ call.fn \in {"line_offset", "line_offset_rev"}) =>
        LET t == call.text
            n == call.line
            r == ret[1]
        IN  /\ r \in 0..Len(t)
            /\ call.fn = "line_offset" =>
                 IF n <= 1 THEN r = 0
                 ELSE IF NewlinesBefore(t, Len(t)) >= n - 1
                      THEN /\ r >= 1
                           /\ t[r] = NL
                           /\ NewlinesBefore(t, r) = n - 1
                      ELSE r = Len(t)
            /\ (call.fn = "line_offset_rev" /\ n = 0) => r = Len(t)

\* line_offset returned an offset strictly inside a text, after its second newline
LineAnchorWitness ==
    /\ pc = "returned"
    /\ call.fn = "line_offset"
    /\ call.line = 3
    /\ ret[1] > 0
    /\ ret[1] < Len(call.text)

----------------------------------------------------------------------------
(* SpecTrim: trim on every small text and every pair of arguments *)

AnchorTexts == {<<X>>, <<X, SP>>, <<SP, X>>, <<H>>}

TrimArgs == {ArgNone} \cup LineArgs \cup {ArgText(p) : p \in AnchorTexts}

\* a directive of a.rs with the given action and argument
TrimAttr(action, a) ==
    [range |-> IF action = "Start" THEN [start |-> 0, end |-> 5]
               ELSE [start |-> 6, end |-> 11],
     kind |-> "Outer", path |-> "lib.txt", action |-> action, arg |-> a]

InitTrim ==
    /\ \E t \in Texts, as \in TrimArgs, ae \in TrimArgs :
           call = [fn |-> "trim", text |-> t,
                   start |-> TrimAttr("Start", as), end |-> TrimAttr("End", ae)]
    /\ ret = None
    /\ pc = "call"
    /\ NoRun

CallTrim ==
    /\ pc = "call"
    /\ call.fn = "trim"
    /\ ret' = Some(trim(call.text, call.start, call.end))
    /\ pc' = "returned"
    /\ UNCHANGED <<fs, dry_run, order, runNo, walkPos, cur, input, attrs, idx,
                   attr_start, text, text_is_modified, last_offset, logs,
                   result, call>>

\* the rendering of what trim returned (apply, lines 180-183)
CallToDocComment ==
    /\ pc = "returned"
    /\ call.fn = "trim"
    /\ ret[1].tag = "Ok"
    /\ call' = [fn |-> "to_doc_comment", text |-> call.text,
                start |-> call.start, end |-> call.end, s |-> ret[1].val,
                prefix |-> doc_comment_prefix(call.start.kind)]
    /\ ret' = Some(to_doc_comment(ret[1].val,
                                  doc_comment_prefix(call.start.kind)))
    /\ pc' = "rendered"
    /\ UNCHANGED <<fs, dry_run, order, runNo, walkPos, cur, input, attrs, idx,
                   attr_start, text, text_is_modified, last_offset, logs,
                   result>>

NextTrim == CallTrim \/ CallToDocComment

SpecTrim == InitTrim /\ [][NextTrim]_vars

TrimReturned == pc = "returned" /\ call.fn = "trim"

\* i is the offset of the first (last) occurrence of p in t
IsFirstOccurrence(t, p, i) ==
    Occurs(t, p, i) /\ \A j \in 0..(i - 1) : ~Occurs(t, p, j)
IsLastOccurrence(t, p, i) ==
    Occurs(t, p, i) /\ \A j \in (i + 1)..Len(t) : ~Occurs(t, p, j)
OccursAnywhere(t, p) == \E i \in 0..Len(t) : Occurs(t, p, i)

\* C9: a Start directive with anchor text p resolves the lower bound to the
\* first occurrence of p, an End directive with anchor text p resolves the
\* upper bound to the last occurrence of p; when p does not occur the result
\* is the text-not-found error carrying the Start directive for the start
\* anchor, the End directive for the end anchor, the start anchor first.
AnchorSearch ==
    TrimReturned =>
        LET t == call.text
            sa == call.start.arg
            ea == call.end.arg
            lo == TrimIndexStart(t, sa)
            hi == TrimIndexEnd(t, ea)
            startMissing == sa.t = "Text" /\ ~OccursAnywhere(t, sa.p)
            endMissing == ea.t = "Text" /\ ~OccursAnywhere(t, ea.p)
        IN  /\ startMissing <=> ret[1] = Err(ErrTextNofFound(call.start))
            /\ (~startMissing /\ endMissing)
                  <=> ret[1] = Err(ErrTextNofFound(call.end))
            /\ (sa.t = "Text" /\ ~startMissing) =>
                  IsSome(lo) /\ IsFirstOccurrence(t, sa.p, lo[1])
            /\ (ea.t = "Text" /\ ~endMissing) =>
                  IsSome(hi) /\ IsLastOccurrence(t, ea.p, hi[1])
            /\ (ret[1].tag = "Ok" /\ sa.t = "Text" /\ ea.t = "Text") =>
                  \E i, j \in 0..Len(t) :
                      /\ IsFirstOccurrence(t, sa.p, i)
                      /\ IsLastOccurrence(t, ea.p, j)
                      /\ i <= j
                      /\ ret[1].val = TrimEnd(TrimStart(Slice(t, i, j)))

\* the same anchor text on both sides, occurring twice: the slice between the
\* first and the last occurrence is returned
AnchorSearchWitness ==
    /\ TrimReturned
    /\ call.start.arg = ArgText(<<X>>)
    /\ call.end.arg = ArgText(<<X>>)
    /\ Cardinality(Occurrences(call.text, <<X>>)) >= 2
    /\ ret[1].tag = "Ok"
    /\ ret[1].val /= <<>>

\* the bounds trim resolves from the two arguments are reversed
ReversedBounds ==
    LET lo == TrimIndexStart(call.text, call.start.arg)
        hi == TrimIndexEnd(call.text, call.end.arg)
    IN  IsSome(lo) /\ IsSome(hi) /\ lo[1] > hi[1]

\* C4: whenever the lower bound resolved from the Start argument is greater
\* than the upper bound resolved from the End argument, trim returns an error
\* value; it does not panic.
ReversedBoundsAreAnError ==
    (TrimReturned /\ ReversedBounds) => ret[1].tag = "Err"

\* the symbols of t at the offsets a..b-1 are all whitespace
AllWhitespace(t, a, b) == \A i \in (a + 1)..b : IsWhitespace(t[i])

\* the line has the prefix and something other than whitespace after it
NotBlankLine(line, prefix) ==
    /\ Len(line) > Len(prefix)
    /\ SubSeq(line, 1, Len(prefix)) = prefix
    /\ \E i \in (Len(prefix) + 1)..Len(line) : ~IsWhitespace(line[i])

\* the offsets just after each newline of t, and 0: where the lines start
LineStarts(t) == {0} \cup {i \in 1..Len(t) : t[i] = NL}

\* C11: for bounds lower <= upper trim returns text[lower..upper] with all
\* leading and all trailing whitespace removed and nothing else removed; the
\* rendered block is empty exactly when the range is empty or all whitespace,
\* and otherwise its first and its last line are not blank.
WhitespaceTrimming ==
    LET t == call.text
        lo == TrimIndexStart(t, call.start.arg)
        hi == TrimIndexEnd(t, call.end.arg)
    IN  /\ (TrimReturned /\ IsSome(lo) /\ IsSome(hi) /\ lo[1] <= hi[1]) =>
              ret[1].tag = "Ok"
        /\ pc = "rendered" =>
              LET s == call.s
                  block == ret[1]
                  first == SetMin({i \in 1..Len(block) : block[i] = NL})
                  last == SetMax({i \in LineStarts(block) : i < Len(block)})
              IN  /\ lo[1] <= hi[1]
                  /\ \E a, b \in lo[1]..hi[1] :
                         /\ a <= b
                         /\ s = Slice(t, a, b)
                         /\ AllWhitespace(t, lo[1], a)
                         /\ AllWhitespace(t, b, hi[1])
                         /\ a < b => ~IsWhitespace(t[a + 1]) /\ ~IsWhitespace(t[b])
                  /\ block = <<>> <=> AllWhitespace(t, lo[1], hi[1])
                  /\ block /= <<>> =>
                         /\ block[Len(block)] = NL
                         /\ NotBlankLine(SubSeq(block, 1, first - 1), call.prefix)
                         /\ NotBlankLine(SubSeq(block, last + 1, Len(block) - 1),
                                         call.prefix)

\* a whole text that starts with a newline and ends with a blank and a newline
\* was trimmed to what stands between them and rendered as one line
WhitespaceTrimmingWitness ==
    /\ pc = "rendered"
    /\ call.start.arg = ArgNone
    /\ call.end.arg = ArgNone
    /\ Len(call.text) >= 4
    /\ call.text[1] = NL
    /\ call.text[Len(call.text) - 1] = SP
    /\ call.text[Len(call.text)] = NL
    /\ call.s /= <<>>
    /\ ret[1] = call.prefix \o call.s \o <<NL>>

----------------------------------------------------------------------------
(* Claims about whole runs *)

IsOk(r) == IsSome(r) /\ r[1].tag = "Ok"
IsErr(r) == IsSome(r) /\ r[1].tag = "Err"

\* every bracket token of t stands in a line that RE matches
NoLeakedDirective(t) ==
    Cardinality({i \in 1..Len(t) : IsBracket(t[i])}) = Len(find_iter(t))

\* neither a file of the tree nor the text apply has built holds directive
\* text inside a rendered block
CleanTree ==
    /\ \A p \in RootFiles : IsSome(fs[p]) => NoLeakedDirective(fs[p][1])
    /\ NoLeakedDirective(text)

\* C1: after a first run that writes its results and completes without error,
\* the apply outcome of every file in the second run is Unchanged.  (Stated for
\* the trees into which no directive line was copied, so that a violation
\* does not rest on the pollution guard.)
RoundTripIdempotence ==
    (runNo = 2 /\ ~dry_run /\ pc = "ret" /\ CleanTree) =>
        (IsOk(result) /\ result[1].val.text = None)

----------------------------------------------------------------------------
(* SpecPairing: a.rs is any short sequence of directive lines; b.rs is missing *)

\* the lines a.rs is made of
PairingLines ==
    {DirLine(k, "lib.txt", act, ArgNone) : k \in Kinds, act \in {"start", "end"}}
    \cup {DirLine("Outer", p, act, ArgNone) :
              p \in {"b.rs", OutsideFile}, act \in {"start", "end"}}
    \cup {BadLine, DirLine("Outer", "lib.txt", "start", ArgText(<<O>>))}

PairingTexts == {Join(ls) : ls \in SeqsUpTo(PairingLines, MaxDirs)}

InitPairing ==
    /\ \E a \in PairingTexts : fs = Tree(Some(a), None, Some(<<H, NL, W, NL>>))
    /\ dry_run \in BOOLEAN
    /\ order \in Perms({"a.rs", "lib.txt"})
    /\ pc = "walk"
    /\ InitLocals
    /\ NoCall

SpecPairing == InitPairing /\ [][Next]_vars

\* C2: when the directive stream of a file ends while a Start directive is
\* still pending, apply fails with the unmatched-start error for it; apply
\* returns success only if no start is pending after the last directive.
EndOfStreamCheck ==
    (pc = "ret" /\ IsOk(result)) => attr_start = None

\* the next step of apply consumes an Ok directive with this action
NextIs(action) ==
    /\ pc = "loop"
    /\ idx < Len(attrs)
    /\ attrs[idx + 1].ok
    /\ attrs[idx + 1].attr.action = action

\* C5: a Start directive that arrives while a start is pending makes apply
\* return the unmatched-start error that reports the pending start, not the new
\* directive; apply stops there: no later directive is consumed, no pair is
\* emitted afterwards and no text is returned.
StartWhilePending ==
    [][/\ (NextIs("Start") /\ IsSome(attr_start)) =>
            /\ result' = Some(Err(ErrMissingAttr(attr_start[1])))
            /\ pc' = "ret"
            /\ logs' = logs
       /\ IsErr(result) =>
            /\ result' = result
            /\ idx' = idx
            /\ logs' = logs
            /\ pc' = "failed"
            /\ fs' = fs]_vars

\* the second of two starts was refused and a later directive is left unread
StartWhilePendingWitness ==
    /\ pc = "failed"
    /\ IsErr(result)
    /\ result[1].err.tag = "MissingAttr"
    /\ result[1].err.attr.action = "Start"
    /\ result[1].err.attr = attrs[idx - 1].attr
    /\ idx < Len(attrs)

\* C6: on an End directive while a start is pending, the pair is emitted and
\* the machine returns to Idle if and only if start and end have the same kind
\* and the same path; otherwise the result is the MismatchAttr error carrying
\* both directives, tagged Kind when the kinds differ and Path when only the
\* paths differ.
MismatchDetection ==
    [][(NextIs("End") /\ IsSome(attr_start)) =>
         LET s == attr_start[1]
             e == attrs[idx + 1].attr
             emitted == \/ Len(logs') = Len(logs) + 1
                        \/ /\ IsErr(result')
                           /\ result'[1].err.tag \in
                                 {"SourceRead", "TextNofFound", "SourceContent"}
                        \/ pc' = "panic"
         IN  /\ attr_start' = None
             /\ IF s.kind = e.kind /\ s.path = e.path
                THEN emitted /\ make_pair(attr_start, attrs[idx + 1]).out
                                   = Ok(Some(<<s, e>>))
                ELSE /\ result' = Some(Err(ErrMismatchAttr(s, e,
                                    IF s.kind /= e.kind THEN "Kind" ELSE "Path")))
                     /\ logs' = logs
                     /\ text' = text]_vars

\* a start on lib.txt met an end of the same kind on another path
MismatchDetectionWitness ==
    /\ pc = "ret"
    /\ IsErr(result)
    /\ result[1].err.tag = "MismatchAttr"
    /\ result[1].err.mismatch = "Path"
    /\ result[1].err.start.path = "lib.txt"
    /\ result[1].err.end.path = "b.rs"
    /\ logs = <<>>

\* directive k arrives while a start is pending, if nothing failed before it
PendingBefore(k) ==
    k > 1 /\ attrs[k - 1].ok /\ attrs[k - 1].attr.action = "Start"

\* the kind of error directive k of the file raises when nothing failed before
\* it, "" when it raises none
FailureAt(k) ==
    LET d == attrs[k]
        s == attrs[k - 1].attr
        path == d.attr.path
    IN  IF ~d.ok THEN "BadAttr"
        ELSE IF d.attr.action = "Start"
        THEN IF PendingBefore(k) THEN "MissingAttr" ELSE ""
        ELSE IF ~PendingBefore(k) THEN "MissingAttr"
        ELSE IF s.kind /= d.attr.kind \/ s.path /= path THEN "MismatchAttr"
        ELSE IF path \notin RootFiles \/ ~IsSome(fs[path]) THEN "SourceRead"
        ELSE IF \/ s.arg.t = "Text" /\ ~OccursAnywhere(fs[path][1], s.arg.p)
                \/ d.attr.arg.t = "Text"
                   /\ ~OccursAnywhere(fs[path][1], d.attr.arg.p)
        THEN "TextNofFound"
        ELSE ""

\* C7: when processing a file hits an error, apply returns the error and no
\* text, the error is the first one in processing order, and run does not
\* write the file, also when earlier pairs of the file were already rendered.
NoPartialSubstitution ==
    /\ IsErr(result) =>
          /\ DOMAIN result[1] = {"tag", "err"}
          /\ idx >= 1
          /\ result[1].err.tag = FailureAt(idx)
          /\ \A j \in 1..(idx - 1) : FailureAt(j) = ""
          /\ fs[cur] = Some(input)
    /\ IsOk(result) => \A j \in 1..Len(attrs) : FailureAt(j) = ""
    /\ pc = "failed" => IsErr(result) /\ fs[cur] = Some(input)

\* run has bailed out on the third directive of a file whose first pair was
\* rendered and differed from what stood between its markers
NoPartialSubstitutionWitness ==
    /\ pc = "failed"
    /\ ~dry_run
    /\ idx = 3
    /\ Len(logs) = 1
    /\ logs[1].is_modified
    /\ text /= <<>>

\* directive k of the file is an End that forms a pair with directive k-1
PairAt(k) ==
    /\ k >= 2
    /\ attrs[k].ok /\ attrs[k].attr.action = "End"
    /\ attrs[k - 1].ok /\ attrs[k - 1].attr.action = "Start"
    /\ ~IsSome(mismatch(attrs[k - 1].attr, attrs[k].attr))

\* the included text of the pair ending at directive k: Option(trimmed range)
SelectedRange(k) ==
    LET inc == include(fs, attrs[k].attr.path)
        tr == trim(inc.val.text, attrs[k - 1].attr, attrs[k].attr)
    IN  IF inc.tag = "Ok" /\ tr.tag = "Ok" THEN Some(tr.val) ELSE None

\* C3: for every pair whose selected range of the included file contains a
\* line of the directive shape, apply fails with the SourceContent error
\* ("source file contains attribute") and returns no text.
PollutionGuard ==
    (pc \in {"loop", "ret"} /\ PairAt(idx) /\ IsSome(SelectedRange(idx))
       /\ IsSome(find_may_bad(SelectedRange(idx)[1]))) =>
        (IsErr(result) /\ result[1].err.tag = "SourceContent")

----------------------------------------------------------------------------
(* SpecSplice: a.rs is a chain of well formed pairs on lib.txt, with text
   before, between and after them *)

\* what stands between the span of a start marker and the span of its end
\* marker: nothing, a placeholder line, or the block of "h\nw\n" for Outer
Betweens ==
    {<<NL>>, <<NL, O, NL>>,
     <<NL, Ch("/"), Ch("/"), Ch("/"), SP, H, NL,
           Ch("/"), Ch("/"), Ch("/"), SP, W, NL>>}

SplicePairs ==
    {DirLine(k, "lib.txt", "start", ArgNone) \o b
     \o DirLine(k, "lib.txt", "end", ArgNone) : k \in Kinds, b \in Betweens}

RECURSIVE PairChains(_)
\* the texts of 1..n pairs, text between two of them
PairChains(n) ==
    IF n <= 1 THEN SplicePairs
    ELSE PairChains(n - 1)
         \cup {p \o m \o c : p \in SplicePairs, m \in {<<NL>>, <<NL, X, NL>>},
                             c \in PairChains(n - 1)}

SpliceTexts ==
    {pre \o c \o post : pre \in {<<>>, <<X, NL>>}, c \in PairChains(MaxPairs),
                        post \in {<<>>, <<NL, X>>}}

InitSplice ==
    /\ \E a \in SpliceTexts, lib \in LibTexts : fs = Tree(Some(a), None, Some(lib))
    /\ dry_run \in BOOLEAN
    /\ order = <<"lib.txt", "a.rs">>
    /\ pc = "walk"
    /\ InitLocals
    /\ NoCall

SpecSplice == InitSplice /\ [][Next]_vars

\* the directives of the file form pairs, in document order
FormsPairs ==
    /\ Len(attrs) % 2 = 0
    /\ \A i \in 1..(Len(attrs) \div 2) : PairAt(2 * i)

\* the rendered block of pair i: every line of the trimmed range, prefixed
\* and ended by a newline
Block(i) ==
    LET lines == StrLines(SelectedRange(2 * i)[1])
        prefix == IF attrs[2 * i - 1].attr.kind = "Outer"
                  THEN <<Ch("/"), Ch("/"), Ch("/"), SP>>
                  ELSE <<Ch("/"), Ch("/"), Ch("!"), SP>>
    IN  Concat([j \in 1..Len(lines) |-> prefix \o lines[j] \o <<NL>>])

\* the output for pair i: the input from the previous end marker (or 0) to the
\* end of the start marker, a newline, the block
Segment(i) ==
    Slice(input, IF i = 1 THEN 0 ELSE attrs[2 * i - 2].attr.range.start,
          attrs[2 * i - 1].attr.range.end)
    \o <<NL>> \o Block(i)

\* the whole output text
Spliced ==
    LET n == Len(attrs) \div 2
    IN  Concat([i \in 1..n |-> Segment(i)])
        \o Slice(input, IF n = 0 THEN 0 ELSE attrs[2 * n].attr.range.start,
                 Len(input))

\* t without what stands strictly between a start marker and its end marker,
\* the directives of t being ds
Outside(t, ds) ==
    LET n == Len(ds) \div 2
    IN  Concat([i \in 1..n |->
                   Slice(t, IF i = 1 THEN 0 ELSE ds[2 * i - 2].attr.range.start,
                         ds[2 * i - 1].attr.range.end)])
        \o Slice(t, IF n = 0 THEN 0 ELSE ds[2 * n].attr.range.start, Len(t))

\* C8: for a file whose directives form pairs, the text apply builds is, pair
\* by pair, the input from the previous end marker (or offset 0) through the
\* start marker, a newline and the rendered block, then the input from the last
\* end marker to the end; what lies outside the regions between paired markers
\* is copied verbatim and in order.  With lib.txt = "h\nw\n" and Outer markers
\* the block is "/// h\n/// w\n", and the file is reported modified when
\* something else stood between the markers.
SpliceShape ==
    (pc = "ret" /\ IsOk(result) /\ FormsPairs) =>
        /\ text = Spliced
        /\ IsSome(result[1].val.text) => result[1].val.text[1] = Spliced
        /\ Len(find_iter(text)) = Len(attrs)
        /\ Outside(text, find_iter(text)) = Outside(input, attrs)
        /\ (Len(attrs) >= 2 /\ fs["lib.txt"] = Some(<<H, NL, W, NL>>)
              /\ attrs[1].attr.kind = "Outer"
              /\ attrs[1].attr.path = "lib.txt"
              /\ attrs[1].attr.arg = ArgNone /\ attrs[2].attr.arg = ArgNone) =>
              /\ Slice(text, attrs[1].attr.range.end,
                       attrs[1].attr.range.end + 13)
                    = <<NL, Ch("/"), Ch("/"), Ch("/"), SP, H, NL,
                            Ch("/"), Ch("/"), Ch("/"), SP, W, NL>>
              /\ Slice(input, attrs[1].attr.range.end,
                       attrs[2].attr.range.start) = <<NL, O, NL>> =>
                    /\ IsSome(result[1].val.text)
                    /\ result[1].val.logs[1]
                          = [source_rel_path |-> "lib.txt", is_modified |-> TRUE]

\* two pairs with text before, between and after them were spliced, the first
\* over a placeholder
SpliceShapeWitness ==
    /\ pc = "ret"
    /\ IsOk(result)
    /\ FormsPairs
    /\ Len(attrs) = 4
    /\ IsSome(result[1].val.text)
    /\ attrs[1].attr.range.start > 0
    /\ attrs[4].attr.range.end < Len(input)
    /\ attrs[3].attr.range.start > attrs[2].attr.range.end + 1
    /\ Slice(input, attrs[1].attr.range.end, attrs[2].attr.range.start)
          = <<NL, O, NL>>
    /\ fs["lib.txt"] = Some(<<H, NL, W, NL>>)

\* what stands strictly between the span of the start marker of pair i and the
\* span of its end marker
Between(i) ==
    Slice(input, attrs[2 * i - 1].attr.range.end, attrs[2 * i].attr.range.start)

\* the content of pair i differs from its block preceded by a newline
Differs(i) == <<NL>> \o Block(i) /= Between(i)

\* C12: on success apply returns no text exactly when, for every pair, the
\* rendered block preceded by a newline equals the text strictly between the
\* spans of the two markers; otherwise it returns the full new text.  The log
\* has one entry per pair, in document order, and the is_modified flag of an
\* entry is true exactly for the pairs whose content differed.
SubstitutionOutcome ==
    (pc = "ret" /\ IsOk(result) /\ FormsPairs) =>
        LET n == Len(attrs) \div 2
            r == result[1].val
        IN  /\ r.text = None <=> \A i \in 1..n : ~Differs(i)
            /\ r.text /= None => r.text = Some(Spliced)
            /\ Len(r.logs) = n
            /\ \A i \in 1..n :
                   /\ r.logs[i].is_modified <=> Differs(i)
                   /\ r.logs[i].source_rel_path = attrs[2 * i].attr.path

\* of two pairs the first already held its block and the second did not
SubstitutionOutcomeWitness ==
    /\ pc = "ret"
    /\ IsOk(result)
    /\ FormsPairs
    /\ Len(attrs) = 4
    /\ ~Differs(1)
    /\ Between(1) /= <<NL>>
    /\ Differs(2)
    /\ result[1].val.logs = <<[source_rel_path |-> "lib.txt", is_modified |-> FALSE],
                              [source_rel_path |-> "lib.txt", is_modified |-> TRUE]>>
    /\ IsSome(result[1].val.text)

----------------------------------------------------------------------------
(* SpecFixedPoint: apply on a.rs, then apply on the text it returned, the
   tree being left as it is *)

\* lib.txt: two lines; a line between whitespace; a directive line and a
\* line; a line that lacks only the `//` of a directive, a blank line, a line
FixedPointLibTexts ==
    LibTexts \cup
    {DirLine("Outer", "lib.txt", "start", ArgNone) \o <<NL, H>>,
     <<Ch("#"), Tok("lib.txt", "end", ArgNone), NL, NL, W>>}

\* the arguments of the start and the end marker of the first pair
FixedPointArgs ==
    {<<ArgNone, ArgNone>>, <<ArgText(<<H>>), ArgNone>>}
    \cup {<<ArgLine(n), ArgNone>> : n \in 1..MaxLine}
    \cup {<<ArgNone, ArgLineRev(n)>> : n \in 0..1}

\* a second pair: Inner around a placeholder line, Outer around the block of
\* "h\nw\n"
SecondPairs ==
    {DirLine("Inner", "lib.txt", "start", ArgNone) \o <<NL, O, NL>>
         \o DirLine("Inner", "lib.txt", "end", ArgNone),
     DirLine("Outer", "lib.txt", "start", ArgNone)
         \o <<NL, Ch("/"), Ch("/"), Ch("/"), SP, H, NL,
                  Ch("/"), Ch("/"), Ch("/"), SP, W, NL>>
         \o DirLine("Outer", "lib.txt", "end", ArgNone)}

\* a.rs: a first pair, possibly indented or after a line, then possibly a
\* second pair, then nothing, a line, or a start marker that stays pending
FixedPointTexts ==
    {pre \o DirLine(k, "lib.txt", "start", a[1]) \o b
         \o DirLine(k, "lib.txt", "end", a[2]) \o rest \o post :
        pre \in {<<>>, <<SP>>, <<X, NL>>},
        k \in Kinds,
        a \in FixedPointArgs,
        b \in Betweens,
        rest \in {<<>>} \cup {<<NL>> \o p : p \in SecondPairs},
        post \in {<<>>, <<NL, X>>,
                  <<NL>> \o DirLine("Outer", "lib.txt", "start", ArgNone)}}

\* the marker line on the file named `, start(`, the bracket part in pieces
QuoteLine(action) ==
    <<Ch("/"), Ch("/"), SP, Ch("#"), LB, Q, CommaParen("start"), Q,
      CommaClose(action)>>

\* the line `// #[include_doc("p`: its string is not closed on the line
OpenLine == <<Ch("/"), Ch("/"), SP, Ch("#"), LB, Q, Ch("p")>>

\* a.rs: a pair on the file named `, start(`, possibly after an open line
QuoteTexts ==
    {pre \o QuoteLine("start") \o b \o QuoteLine("end") \o post :
        pre \in {<<>>, OpenLine \o <<NL>>},
        b \in {<<NL>>, <<NL, O, NL>>},
        post \in {<<>>, <<NL, X>>}}

\* the file named `, start(`: a line, or the line `"))]`
QuoteFileTexts == {<<H, NL>>, <<Q, CloseAll, NL>>}

InitFixedPoint ==
    /\ \/ \E a \in FixedPointTexts, lib \in FixedPointLibTexts :
              fs = Tree(Some(a), None, Some(lib))
       \/ \E a \in QuoteTexts, q \in QuoteFileTexts :
              fs = TreeWith(Some(a), None, Some(<<H, NL, W, NL>>), Some(q))
    /\ dry_run = TRUE
    /\ order = <<"a.rs">>
    /\ pc = "walk"
    /\ InitLocals
    /\ NoCall

\* apply is called on the text its first call returned; `call` keeps the
\* first call: its input, the directives it found and what it returned
ReApply ==
    /\ pc = "ret"
    /\ runNo = 1
    /\ IsOk(result)
    /\ IsSome(result[1].val.text)
    /\ call' = [fn |-> "apply", input |-> input, attrs |-> attrs,
                result |-> result[1]]
    /\ runNo' = 2
    /\ input' = result[1].val.text[1]
    /\ attrs' = find_iter(result[1].val.text[1])
    /\ idx' = 0
    /\ attr_start' = None
    /\ SetLocals(Locals(<<>>, FALSE, 0, <<>>))
    /\ result' = None
    /\ pc' = "loop"
    /\ UNCHANGED <<fs, dry_run, order, walkPos, cur, ret>>

NextFixedPoint == Visit \/ ApplyStep \/ ApplyReturn \/ ReApply

SpecFixedPoint == InitFixedPoint /\ [][NextFixedPoint]_vars

\* what a directive says: kind, path, action and argument, not where it stands
Directive(d) ==
    IF d.ok THEN <<d.attr.kind, d.attr.path, d.attr.action, d.attr.arg>>
    ELSE <<"bad">>

\* C13: with the included files held fixed, when apply(input) succeeds with
\* Modified(text), apply(text) succeeds with Unchanged, finds the same
\* directives as in input (kind, path, action, argument, in the same order),
\* and the text it builds is text again; the text apply returns has as many
\* directive-shaped lines as its input.
PerFileFixedPoint ==
    /\ (pc = "ret" /\ runNo = 1 /\ IsOk(result) /\ IsSome(result[1].val.text)) =>
          Len(find_iter(result[1].val.text[1])) = Len(attrs)
    /\ runNo = 2 =>
          /\ pc \in {"loop", "ret"}
          /\ ~IsErr(result)
          /\ Len(attrs) = Len(call.attrs)
          /\ \A i \in 1..Len(attrs) :
                 attrs[i].ok /\ Directive(attrs[i]) = Directive(call.attrs[i])
          /\ pc = "ret" =>
                 /\ result = Some(Ok(ApplyResult(None, logs)))
                 /\ Len(logs) = Len(call.result.val.logs)
                 /\ text = input

====
